---- MODULE Spec2Model ----
(***************************************************************************)
(* The JSON-lines command loop of python-tts/qwen3_tts_cuda.py: the module *)
(* import block, the Qwen3TTS engine (init_model, warmup, generate) and    *)
(* main()'s read/dispatch/respond loop with its except handler.            *)
(*                                                                         *)
(* Writes to the standard streams are taken to succeed.  The calls into    *)
(* torch / qwen_tts are the environment: each may return or raise, and     *)
(* each prints a line through sys.stdout while it runs.                    *)
(***************************************************************************)
EXTENDS Integers, Sequences, FiniteSets

VARIABLES
  pc,          \* "import", "main", "loop" or "exit"
  stdin,       \* the lines the parent process writes, in order
  pos,         \* how many of them the for loop has read
  stdout,      \* what has been written to the real standard output
  stderr,      \* what has been written to standard error
  sys_stdout,  \* the stream sys.stdout names: "stdout" or "stderr"
  tts,         \* the Qwen3TTS instance
  cmd,         \* main's local cmd (Unbound until first assigned)
  exc,         \* the exception the last iteration's try block raised
  exit_code,   \* Running, or the process's exit status
  nload,       \* calls of Qwen3TTSModel.from_pretrained so far
  nsynth,      \* calls of model.generate_custom_voice so far
  wavlen,      \* len(wavs[0]) of the last waveform the library returned
  pcm,         \* the audio round trip: request, response, what a reader sees
  build        \* scripts/build_sidecar.py: its position and the file system

vars == <<pc, stdin, pos, stdout, stderr, sys_stdout, tts, cmd, exc,
          exit_code, nload, nsynth, wavlen, pcm, build>>

\* ---- bounds ------------------------------------------------------------
MaxLines == 3

\* ---- Python values -----------------------------------------------------
None == "<None>"
Unbound == [type |-> "<unbound>"]
NoModel == 0
NoSpeaker == "<no attribute>"

\* ---- input lines -------------------------------------------------------
\* A line is described by the JSON syntax class of its text; an object
\* carries its members.
ObjLine(members) == [syntax |-> "object", members |-> members]

Lines ==
  { [syntax |-> "garbage"], [syntax |-> "blank"],
    [syntax |-> "number"], [syntax |-> "string"],
    [syntax |-> "list"], [syntax |-> "null"],
    ObjLine([action |-> "init"]),
    ObjLine([action |-> "warmup"]),
    ObjLine([action |-> "ping"]),
    ObjLine([action |-> "shutdown"]),
    ObjLine([action |-> "foo"]),
    ObjLine([nonce |-> 1]),
    ObjLine([action |-> "generate", text |-> 1]),
    ObjLine([action |-> "generate"]),
    ObjLine([action |-> "generate", text |-> 2, speed |-> 20]) }

Inputs == UNION { [1..k -> Lines] : k \in 0..MaxLines }

\* json.loads(line.strip())
json_loads(line) ==
  CASE line.syntax \in {"garbage", "blank"} -> [raised |-> TRUE]
    [] line.syntax = "object" ->
         [raised |-> FALSE, value |-> [type |-> "dict", members |-> line.members]]
    [] OTHER -> [raised |-> FALSE, value |-> [type |-> line.syntax]]

\* dict.get(key, default)
dict_get(d, key, default) ==
  IF key \in DOMAIN d.members THEN d.members[key] ELSE default

\* ---- output ------------------------------------------------------------
\* print(x): writes to whatever sys.stdout currently names
py_print(m, x) ==
  IF m.sys_stdout = "stdout"
  THEN [m EXCEPT !.stdout = Append(@, x)]
  ELSE [m EXCEPT !.stderr = Append(@, x)]

\* print(x, file=sys.stderr)
py_eprint(m, x) == [m EXCEPT !.stderr = Append(@, x)]

Diag == [kind |-> "diag"]
LibOut == [kind |-> "lib"]
IsResponse(x) == x.kind = "response"

\* restore_stdout with the assignment left out
restore_stdout_skipped(m, saved) == m

\* finally: sys.stdout = _stdout (lines 120-121, 180-181)
restore_stdout(m, saved) == [m EXCEPT !.sys_stdout = saved]

\* ---- module import block ----------------------------------------------
\* lines 49-70: imports run with sys.stdout pointing at stderr
ImportOutcomes == {"ok", "ImportError"}

\* import block whose except clause leaves sys.stdout redirected
import_block_redirected(m, outcome) ==
  LET m1 == [m EXCEPT !.sys_stdout = "stderr"]
      m2 == py_print(m1, LibOut)
      m3 == [m2 EXCEPT !.sys_stdout = "stdout"]
  IN IF outcome = "ok"
     THEN [m |-> m3, exit |-> FALSE]
     ELSE [m |-> py_print(m2, [kind |-> "response", status |-> "error",
                            action |-> "startup",
                            error |-> "Missing required library"]),
           exit |-> TRUE]

import_block(m, outcome) ==
  LET m1 == [m EXCEPT !.sys_stdout = "stderr"]
      m2 == py_print(m1, LibOut)
      m3 == [m2 EXCEPT !.sys_stdout = "stdout"]
  IN IF outcome = "ok"
     THEN [m |-> m3, exit |-> FALSE]
     ELSE [m |-> py_print(m3, [kind |-> "response", status |-> "error",
                            action |-> "startup",
                            error |-> "Missing required library"]),
           exit |-> TRUE]

\* ---- Qwen3TTS ----------------------------------------------------------
\* Qwen3TTS.__init__
Qwen3TTS_init ==
  [model |-> NoModel, device |-> None, sample_rate |-> 24000,
   speaker |-> NoSpeaker]

\* What the environment decides during one init_model call: whether CUDA
\* is there and which call, if any, raises ("verify" is the device check
\* of lines 111-116).
InitEnvs ==
  { [cuda |-> c, fails |-> f] :
      c \in BOOLEAN, f \in {"none", "import", "from_pretrained", "verify"} }
  \cup { [cuda |-> TRUE, fails |-> "get_device_name"] }

\* load_model that drops the old handle before it loads
load_model_clearing(m, env) ==
  LET m0 == [m EXCEPT !.tts.model = NoModel]
      m3 == py_print(m0, LibOut)
      m4 == py_print([m3 EXCEPT !.nload = @ + 1], LibOut)
  IN CASE env.fails = "import" -> [m |-> m3, raised |-> TRUE]
       [] env.fails = "from_pretrained" -> [m |-> m4, raised |-> TRUE]
       [] OTHER -> [m |-> [m4 EXCEPT !.tts.model = m4.nload],
                    raised |-> FALSE]

\* lines 98-108: import qwen_tts, then from_pretrained; the k-th call of
\* from_pretrained returns handle k
load_model(m, env) ==
  LET m3 == py_print(m, LibOut)
      m4 == py_print([m3 EXCEPT !.nload = @ + 1], LibOut)
  IN CASE env.fails = "import" -> [m |-> m3, raised |-> TRUE]
       [] env.fails = "from_pretrained" -> [m |-> m4, raised |-> TRUE]
       [] OTHER -> [m |-> [m4 EXCEPT !.tts.model = m4.nload],
                    raised |-> FALSE]

\* the device check without its own try/except
verify_device_unguarded(m, env) ==
  IF env.fails = "verify"
  THEN [m |-> m, raised |-> TRUE]
  ELSE [m |-> py_eprint(m, Diag), raised |-> FALSE]

\* lines 110-118: whatever the check raises is caught and reported on stderr
verify_device(m, env) == [m |-> py_eprint(m, Diag), raised |-> FALSE]

\* Qwen3TTS.init_model
init_model(m, env) ==
  LET dev == IF env.cuda THEN "cuda:0" ELSE "cpu"
      \* lines 83-91
      m1 == py_eprint([m EXCEPT !.tts.device = dev], Diag)
      \* lines 94-95
      saved == m1.sys_stdout
      m2 == [m1 EXCEPT !.sys_stdout = "stderr"]
      \* lines 97-118
      ld == load_model(m2, env)
      vf == verify_device(ld.m, env)
      \* lines 120-121
      restore(x) == restore_stdout(x, saved)
      \* lines 124-125
      m6 == [restore(vf.m) EXCEPT !.tts.speaker = "Ryan",
                                  !.tts.sample_rate = 12000]
      failed(x) == [m |-> x, raised |-> TRUE,
                    error |-> "Failed to initialize model"]
  IN CASE env.fails = "get_device_name" ->
            failed([m EXCEPT !.tts.device = dev])
       [] ld.raised -> failed(restore(ld.m))
       [] vf.raised -> failed(restore(vf.m))
       [] OTHER -> [m |-> m6, raised |-> FALSE, value |-> dev]

\* What the library call inside generate does: raise, or return a
\* waveform of n samples at rate sr.
SynthRates == {12000, 24000}
SynthSamples == {5}
SynthEnvs ==
  { [raises |-> TRUE] }
  \cup { [raises |-> FALSE, sr |-> r, n |-> k] :
           r \in SynthRates, k \in SynthSamples }

\* _adjust_speed that multiplies by the factor
adjust_speed_stretching(n, speed) ==
  IF speed = 10 THEN n ELSE (n * speed) \div 10

\* Qwen3TTS._adjust_speed; speed is held in tenths (20 is 2.0)
adjust_speed(n, speed) ==
  IF speed = 10 THEN n ELSE (n * 10) \div speed

\* _to_wav_bytes that writes a fixed frame rate
to_wav_bytes_fixed_rate(n, sample_rate) ==
  [nchannels |-> 1, sampwidth |-> 2, framerate |-> 24000, nframes |-> n]

\* Qwen3TTS._to_wav_bytes: the container's parameters and frame count
to_wav_bytes(n, sample_rate) ==
  [nchannels |-> 1, sampwidth |-> 2, framerate |-> sample_rate, nframes |-> n]

\* a placeholder of one second whatever the text
placeholder_samples_fixed(textlen) == 24000

\* lines 160-161: int(24000 * (len(text) * 0.05))
placeholder_samples(textlen) == 1200 * textlen

\* Qwen3TTS.generate; text is len(text), speed and temperature are in tenths
generate(m, text, speed, temperature, env) ==
  LET failed(x) == [m |-> x, raised |-> TRUE, error |-> "Generation failed"]
      \* lines 170-171
      saved == m.sys_stdout
      m1 == [m EXCEPT !.sys_stdout = "stderr"]
      \* lines 175-179
      m2 == py_print([m1 EXCEPT !.nsynth = @ + 1], LibOut)
      \* lines 180-181
      restore(x) == restore_stdout(x, saved)
      returned(x) == [restore(x) EXCEPT !.wavlen = env.n]
  IN IF m.tts.model = NoModel
     THEN [m |-> m, raised |-> FALSE,
           value |-> [wav |-> to_wav_bytes(placeholder_samples(text), 24000),
                      sr |-> 24000]]
     ELSE IF m.tts.speaker = NoSpeaker THEN failed(restore(m1))
     ELSE IF env.raises THEN failed(restore(m2))
     \* line 235: np.interp raises on an empty array of sample points
     ELSE IF speed # 10 /\ env.n = 0 THEN failed(returned(m2))
     ELSE [m |-> returned(m2), raised |-> FALSE,
           value |-> [wav |-> to_wav_bytes(
                                IF speed # 10 THEN adjust_speed(env.n, speed)
                                ELSE env.n, env.sr),
                      sr |-> env.sr]]

\* warmup without the "Model not initialized" check
warmup_unchecked(m, env) ==
  LET g == generate(m, 6, 10, 1, env)
  IN IF g.raised
     THEN [m |-> g.m, raised |-> TRUE,
           error |-> "Warmup failed: Generation failed"]
     ELSE [m |-> g.m, raised |-> FALSE]

\* Qwen3TTS.warmup
warmup(m, env) ==
  IF m.tts.model = NoModel
  THEN [m |-> m, raised |-> TRUE,
        error |-> "Warmup failed: Model not initialized"]
  ELSE LET g == generate(m, 6, 10, 1, env)
       IN IF g.raised
          THEN [m |-> g.m, raised |-> TRUE,
                error |-> "Warmup failed: Generation failed"]
          ELSE [m |-> g.m, raised |-> FALSE]

\* ---- main(): one iteration of the command loop -------------------------
\* Each branch gives the machine after the iteration, the binding of the
\* local cmd, the exception the try block raised (NoExc if none), and how
\* the iteration ends: "loop" (read on), "break", or "crash" (an exception
\* leaves main).
NoExc == "none"

Ok(action) == [kind |-> "response", status |-> "ok", action |-> action]
Err(action, msg) ==
  [kind |-> "response", status |-> "error", action |-> action, error |-> msg]

RuntimeError(msg) == [type |-> "RuntimeError", msg |-> msg]

\* except handler that always tags the response "unknown"
except_handler_untagged(m, c, e) ==
  IF c # Unbound /\ c.type # "dict"
  THEN [m |-> py_eprint(m, Diag), cmd |-> c, exc |-> e.type, next |-> "crash"]
  ELSE [m |-> py_print(m, Err("unknown", e.msg)), cmd |-> c,
        exc |-> e.type, next |-> "loop"]

\* lines 303-308
except_handler(m, c, e) ==
  IF c = Unbound
  THEN [m |-> py_print(m, Err("unknown", e.msg)), cmd |-> c,
        exc |-> e.type, next |-> "loop"]
  ELSE IF c.type # "dict"
  THEN [m |-> py_eprint(m, Diag), cmd |-> c, exc |-> e.type, next |-> "crash"]
  ELSE [m |-> py_print(m, Err(dict_get(c, "action", "unknown"), e.msg)),
        cmd |-> c, exc |-> e.type, next |-> "loop"]

\* init branch that announces ready once the model is loaded
init_branch_ready(m, c, env) ==
  LET r == init_model(m, env)
  IN IF r.raised THEN except_handler(r.m, c, RuntimeError(r.error))
     ELSE [m |-> py_print(r.m, Ok("ready")),
           cmd |-> c, exc |-> NoExc, next |-> "loop"]

\* lines 251-258
init_branch(m, c, env) ==
  LET r == init_model(m, env)
  IN IF r.raised THEN except_handler(r.m, c, RuntimeError(r.error))
     ELSE [m |-> py_print(r.m, [kind |-> "response", status |-> "ok",
                                action |-> "init", device |-> r.value,
                                model_loaded |-> TRUE]),
           cmd |-> c, exc |-> NoExc, next |-> "loop"]

\* lines 260-265
warmup_branch(m, c, env) ==
  LET r == warmup(m, env)
  IN IF r.raised THEN except_handler(r.m, c, RuntimeError(r.error))
     ELSE [m |-> py_print(r.m, Ok("warmup")), cmd |-> c, exc |-> NoExc, next |-> "loop"]

\* generate branch that also stores the returned rate in the engine
generate_branch_storing(m, c, env) ==
  LET text == dict_get(c, "text", 0)
      speed == dict_get(c, "speed", 10)
      temperature == dict_get(c, "temperature", 1)
      r == generate(m, text, speed, temperature, env)
  IN IF r.raised THEN except_handler(r.m, c, RuntimeError(r.error))
     ELSE [m |-> py_print([r.m EXCEPT !.tts.sample_rate = r.value.sr],
                          [kind |-> "response", status |-> "ok",
                           action |-> "generate", audio |-> r.value.wav,
                           sample_rate |-> r.value.sr]),
           cmd |-> c, exc |-> NoExc, next |-> "loop"]

\* lines 267-280
generate_branch(m, c, env) ==
  LET text == dict_get(c, "text", 0)
      speed == dict_get(c, "speed", 10)
      temperature == dict_get(c, "temperature", 1)
      r == generate(m, text, speed, temperature, env)
  IN IF r.raised THEN except_handler(r.m, c, RuntimeError(r.error))
     ELSE [m |-> py_print(r.m, [kind |-> "response", status |-> "ok",
                                action |-> "generate", audio |-> r.value.wav,
                                sample_rate |-> r.value.sr]),
           cmd |-> c, exc |-> NoExc, next |-> "loop"]

\* ping branch that reports whether a device was selected
ping_branch_device(m, c) ==
  [m |-> py_print(m, [kind |-> "response", status |-> "ok", action |-> "ping",
                      model_loaded |-> (m.tts.device # None)]),
   cmd |-> c, exc |-> NoExc, next |-> "loop"]

\* lines 282-287
ping_branch(m, c) ==
  [m |-> py_print(m, [kind |-> "response", status |-> "ok", action |-> "ping",
                      model_loaded |-> (m.tts.model # NoModel)]),
   cmd |-> c, exc |-> NoExc, next |-> "loop"]

\* shutdown branch without the break
shutdown_branch_nobreak(m, c) ==
  [m |-> py_print(m, Ok("shutdown")), cmd |-> c, exc |-> NoExc, next |-> "loop"]

\* lines 289-294
shutdown_branch(m, c) ==
  [m |-> py_print(m, Ok("shutdown")), cmd |-> c, exc |-> NoExc, next |-> "break"]

\* lines 296-301
unknown_branch(m, c, action) ==
  [m |-> py_print(m, Err(action, "Unknown action")), cmd |-> c, exc |-> NoExc, next |-> "loop"]

\* which arm of lines 247-301 a line takes
Branch(line) ==
  LET p == json_loads(line)
  IN IF p.raised THEN "decode_error"
     ELSE IF p.value.type # "dict" THEN "not_a_dict"
     ELSE LET a == dict_get(p.value, "action", None)
          IN IF a \in {"init", "warmup", "generate", "ping", "shutdown"}
             THEN a ELSE "unknown"

\* lines 247-308
main_body(m, c, line, ienv, senv) ==
  LET p == json_loads(line)
  IN IF p.raised THEN except_handler(m, c, [type |-> "JSONDecodeError",
                                          msg |-> "Expecting value"])
     ELSE LET c1 == p.value
          IN IF c1.type # "dict"
             THEN except_handler(m, c1,
                    [type |-> "AttributeError",
                     msg |-> "object has no attribute 'get'"])
             ELSE LET action == dict_get(c1, "action", None)
                  IN CASE action = "init" -> init_branch(m, c1, ienv)
                       [] action = "warmup" -> warmup_branch(m, c1, senv)
                       [] action = "generate" -> generate_branch(m, c1, senv)
                       [] action = "ping" -> ping_branch(m, c1)
                       [] action = "shutdown" -> shutdown_branch(m, c1)
                       [] OTHER -> unknown_branch(m, c1, action)

\* ---- the state machine -------------------------------------------------
Running == -1

machine ==
  [tts |-> tts, sys_stdout |-> sys_stdout, stdout |-> stdout,
   stderr |-> stderr, nload |-> nload, nsynth |-> nsynth, wavlen |-> wavlen]

\* the variables of the audio round trip and of the build script
others == <<pcm, build>>

SetMachine(m) ==
  /\ tts' = m.tts
  /\ sys_stdout' = m.sys_stdout
  /\ stdout' = m.stdout
  /\ stderr' = m.stderr
  /\ nload' = m.nload
  /\ nsynth' = m.nsynth
  /\ wavlen' = m.wavlen

PcmIdle == [stage |-> "idle"]
BuildIdle == [pc |-> "idle"]

\* the process starts with the given possible contents of standard input
LoopStart(inputs) ==
  /\ pc = "import"
  /\ stdin \in inputs
  /\ pos = 0
  /\ stdout = <<>>
  /\ stderr = <<>>
  /\ sys_stdout = "stdout"
  /\ tts = Qwen3TTS_init
  /\ cmd = Unbound
  /\ exc = NoExc
  /\ exit_code = Running
  /\ nload = 0
  /\ nsynth = 0
  /\ wavlen = 0

Boot(inputs) ==
  /\ LoopStart(inputs)
  /\ pcm = PcmIdle
  /\ build = BuildIdle

Init == Boot(Inputs)

\* lines 49-70
ImportOk ==
  /\ pc = "import"
  /\ SetMachine(import_block(machine, "ok").m)
  /\ pc' = "main"
  /\ UNCHANGED <<stdin, pos, cmd, exc, exit_code, others>>

ImportFails ==
  /\ pc = "import"
  /\ SetMachine(import_block(machine, "ImportError").m)
  /\ pc' = "exit"
  /\ exit_code' = 1
  /\ UNCHANGED <<stdin, pos, cmd, exc, others>>

\* lines 240-243
Ready ==
  /\ pc = "main"
  /\ SetMachine(py_print([machine EXCEPT !.tts = Qwen3TTS_init], Ok("ready")))
  /\ pc' = "loop"
  /\ UNCHANGED <<stdin, pos, cmd, exc, exit_code, others>>

\* one iteration of the for loop on the next line of stdin, with the
\* environment's choices drawn from ienvs and senvs
Iterate(ienvs, senvs) ==
  /\ \E ienv \in ienvs, senv \in senvs :
       LET r == main_body(machine, cmd, stdin[pos + 1], ienv, senv)
       IN /\ SetMachine(r.m)
          /\ cmd' = r.cmd
          /\ exc' = r.exc
          /\ pc' = IF r.next = "loop" THEN "loop" ELSE "exit"
          /\ exit_code' = CASE r.next = "loop" -> exit_code
                            [] r.next = "break" -> 0
                            [] OTHER -> 1
  /\ pos' = pos + 1
  /\ UNCHANGED <<stdin, others>>

\* the loop is about to read a line that takes the given arm
Reads(branch) ==
  /\ pc = "loop"
  /\ pos < Len(stdin)
  /\ Branch(stdin[pos + 1]) = branch

NoInitEnv == {[cuda |-> FALSE, fails |-> "none"]}
NoSynthEnv == {[raises |-> TRUE]}

HandleInit ==
  /\ Reads("init")
  /\ Iterate(InitEnvs, NoSynthEnv)

HandleWarmup ==
  /\ Reads("warmup")
  /\ Iterate(NoInitEnv, SynthEnvs)

HandleGenerate ==
  /\ Reads("generate")
  /\ Iterate(NoInitEnv, SynthEnvs)

HandlePing ==
  /\ Reads("ping")
  /\ Iterate(NoInitEnv, NoSynthEnv)

HandleShutdown ==
  /\ Reads("shutdown")
  /\ Iterate(NoInitEnv, NoSynthEnv)

HandleUnknown ==
  /\ Reads("unknown")
  /\ Iterate(NoInitEnv, NoSynthEnv)

HandleDecodeError ==
  /\ Reads("decode_error")
  /\ Iterate(NoInitEnv, NoSynthEnv)

HandleNotADict ==
  /\ Reads("not_a_dict")
  /\ Iterate(NoInitEnv, NoSynthEnv)

\* the for loop ends: main returns
EndOfInput ==
  /\ pc = "loop"
  /\ pos = Len(stdin)
  /\ pc' = "exit"
  /\ exit_code' = 0
  /\ UNCHANGED <<stdin, pos, stdout, stderr, sys_stdout, tts, cmd, exc,
                 nload, nsynth, wavlen, others>>

Next ==
  \/ ImportOk
  \/ ImportFails
  \/ Ready
  \/ HandleInit
  \/ HandleWarmup
  \/ HandleGenerate
  \/ HandlePing
  \/ HandleShutdown
  \/ HandleUnknown
  \/ HandleDecodeError
  \/ HandleNotADict
  \/ EndOfInput

Spec == Init /\ [][Next]_vars

TypeOK ==
  /\ pc \in {"import", "main", "loop", "exit"}
  /\ pos \in 0..Len(stdin)
  /\ sys_stdout \in {"stdout", "stderr"}
  /\ exit_code \in {Running, 0, 1}
  /\ tts.model \in 0..nload

\* ---- the loop on generate requests ------------------------------------
\* The same process fed with init and generate lines only, the generate
\* lines ranging over text lengths, speeds and temperatures, and the
\* library returning waveforms of 0..MaxSamples samples.
MaxGenLines == 2
MaxTextLen == 2
MaxSamples == 3

GenSpeeds == {10, 20}
GenTemperatures == {1, 9}

GenLines ==
  { ObjLine([action |-> "init"]) }
  \cup { ObjLine([action |-> "generate", text |-> t]) : t \in 0..MaxTextLen }
  \cup { ObjLine([action |-> "generate", text |-> t, speed |-> sp,
                  temperature |-> tm]) :
           t \in 0..MaxTextLen, sp \in GenSpeeds, tm \in GenTemperatures }

GenInputs == UNION { [1..k -> GenLines] : k \in 0..MaxGenLines }

GenInitEnvs ==
  { [cuda |-> FALSE, fails |-> f] : f \in {"none", "from_pretrained"} }

GenSynthEnvs ==
  { [raises |-> TRUE] }
  \cup { [raises |-> FALSE, sr |-> r, n |-> k] :
           r \in SynthRates, k \in 0..MaxSamples }

GenBoot == Boot(GenInputs)

GenHandleInit ==
  /\ Reads("init")
  /\ Iterate(GenInitEnvs, NoSynthEnv)

GenHandleGenerate ==
  /\ Reads("generate")
  /\ Iterate(NoInitEnv, GenSynthEnvs)

GenNext ==
  \/ ImportOk
  \/ Ready
  \/ GenHandleInit
  \/ GenHandleGenerate
  \/ EndOfInput

GenSpec == GenBoot /\ [][GenNext]_vars

\* ---- the audio payload, byte by byte ----------------------------------
\* What generate's answer looks like on the wire: the bytes the wave
\* module writes for the container, base64-encoded (line 273).  The sample
\* values are not modelled: data byte i stands as SampleByte(i).
MaxPcmText == 1
MaxPcmFrames == 3

TagRIFF == <<82, 73, 70, 70>>
TagWAVE == <<87, 65, 86, 69>>
TagFmt == <<102, 109, 116, 32>>
TagData == <<100, 97, 116, 97>>

RECURSIVE Pow256(_)
Pow256(k) == IF k = 0 THEN 1 ELSE 256 * Pow256(k - 1)

\* x as k bytes, least significant first
LittleEndian(x, k) == [i \in 1..k |-> (x \div Pow256(i - 1)) % 256]

SampleByte(i) == (37 * i) % 256

\* audio.tobytes() of an int16 array of n samples
tobytes(n) == [i \in 1..(2 * n) |-> SampleByte(i)]

\* lines 217-224: the file the wave module leaves in the buffer for the
\* parameters w, after writeframes of an int16 array of w.nframes samples
wave_getvalue(w) ==
  LET data == tobytes(w.nframes)
  IN TagRIFF \o LittleEndian(36 + Len(data), 4) \o TagWAVE
     \o TagFmt \o LittleEndian(16, 4) \o LittleEndian(1, 2)
     \o LittleEndian(w.nchannels, 2) \o LittleEndian(w.framerate, 4)
     \o LittleEndian(w.nchannels * w.framerate * w.sampwidth, 4)
     \o LittleEndian(w.nchannels * w.sampwidth, 2)
     \o LittleEndian(w.sampwidth * 8, 2)
     \o TagData \o LittleEndian(Len(data), 4) \o data

B64Alphabet ==
  << "A", "B", "C", "D", "E", "F", "G", "H", "I", "J", "K", "L", "M",
     "N", "O", "P", "Q", "R", "S", "T", "U", "V", "W", "X", "Y", "Z",
     "a", "b", "c", "d", "e", "f", "g", "h", "i", "j", "k", "l", "m",
     "n", "o", "p", "q", "r", "s", "t", "u", "v", "w", "x", "y", "z",
     "0", "1", "2", "3", "4", "5", "6", "7", "8", "9", "+", "/" >>

\* line 273: base64.b64encode(wav_bytes).decode('utf-8'), as a sequence of
\* characters
b64encode(bytes) ==
  LET n == Len(bytes)
      groups == (n + 2) \div 3
      byte(i) == IF i <= n THEN bytes[i] ELSE 0
      sextet(g, j) ==
        LET b0 == byte(3 * g + 1)
            b1 == byte(3 * g + 2)
            b2 == byte(3 * g + 3)
        IN CASE j = 0 -> b0 \div 4
             [] j = 1 -> (b0 % 4) * 16 + b1 \div 16
             [] j = 2 -> (b1 % 16) * 4 + b2 \div 64
             [] OTHER -> b2 % 64
      char(g, j) ==
        IF 3 * g + j > n THEN "=" ELSE B64Alphabet[sextet(g, j) + 1]
  IN [i \in 1..(4 * groups) |-> char((i - 1) \div 4, (i - 1) % 4)]

\* the engine a request meets: fresh, or after one successful init
PcmEngine(loaded) ==
  LET fresh == [tts |-> Qwen3TTS_init, sys_stdout |-> "stdout",
                stdout |-> <<>>, stderr |-> <<>>, nload |-> 0, nsynth |-> 0,
                wavlen |-> 0]
  IN IF loaded
     THEN init_model(fresh, [cuda |-> FALSE, fails |-> "none"]).m
     ELSE fresh

PcmSynthEnvs ==
  { [raises |-> TRUE] }
  \cup { [raises |-> FALSE, sr |-> r, n |-> k] :
           r \in SynthRates, k \in 0..MaxPcmFrames }

PcmRequests ==
  [loaded : BOOLEAN, text : 0..MaxPcmText, speed : GenSpeeds,
   env : PcmSynthEnvs]

PcmBoot ==
  /\ LoopStart({<<>>})
  /\ pcm \in { [stage |-> "request", req |-> q] : q \in PcmRequests }
  /\ build = BuildIdle

\* lines 272-280: generate, then the audio and sample_rate fields of the
\* response
PcmAnswer ==
  /\ pcm.stage = "request"
  /\ LET q == pcm.req
         r == generate(PcmEngine(q.loaded), q.text, q.speed, 1, q.env)
     IN pcm' = IF r.raised
               THEN [stage |-> "failed", req |-> q]
               ELSE [stage |-> "answered", req |-> q,
                     audio |-> b64encode(wave_getvalue(r.value.wav)),
                     sample_rate |-> r.value.sr]
  /\ UNCHANGED <<pc, stdin, pos, stdout, stderr, sys_stdout, tts, cmd, exc,
                 exit_code, nload, nsynth, wavlen, build>>

PcmNext == PcmAnswer

PcmSpec == PcmBoot /\ [][PcmNext]_vars

\* ---- scripts/build_sidecar.py ------------------------------------------
\* The build script as a state machine of its own, in the variable build.
\* The file system is the content of the candidate output paths inside
\* BINARIES_DIR; pip and PyInstaller are the environment.
Systems == {"Darwin", "Windows", "Linux", "FreeBSD"}
Archs == {"arm64", "x86_64"}

\* lines 26-38
TARGET_TRIPLE(SYSTEM, ARCH) ==
  IF SYSTEM = "Darwin"
  THEN IF ARCH = "arm64" THEN "aarch64-apple-darwin"
       ELSE "x86_64-apple-darwin"
  ELSE IF SYSTEM = "Windows" THEN "x86_64-pc-windows-msvc"
  ELSE "x86_64-unknown-linux-gnu"

EXT(SYSTEM) == IF SYSTEM = "Windows" THEN ".exe" ELSE ""

\* lines 40-74; hidden_imports and collect_all only shape the command line
TARGETS ==
  << [name |-> "chatterbox-tts", script |-> "chatterbox_tts.py",
      requirements |-> "requirements-chatterbox.txt",
      platforms |-> {"Darwin"}],
     [name |-> "qwen3-tts", script |-> "qwen3_tts.py",
      requirements |-> "requirements-qwen3tts.txt",
      platforms |-> {"Darwin"}],
     [name |-> "qwen3-tts-cuda", script |-> "qwen3_tts_cuda.py",
      requirements |-> "requirements-cuda.txt",
      platforms |-> {"Windows", "Linux"}] >>

TargetNames == { TARGETS[k].name : k \in 1..Len(TARGETS) }

\* a path below BINARIES_DIR, as the pieces the f-strings join
output_name(name, triple) == <<name, "-", triple>>

\* lines 127 and 157-158: the path the script looks at
output_path(name, SYSTEM, ARCH) ==
  output_name(name, TARGET_TRIPLE(SYSTEM, ARCH)) \o <<EXT(SYSTEM)>>

\* where PyInstaller --onefile --name n --distpath BINARIES_DIR puts its
\* result: it appends .exe on Windows (comment at line 126)
pyinstaller_output(n, SYSTEM) ==
  n \o <<IF SYSTEM = "Windows" THEN ".exe" ELSE "">>

Extensions == {"", ".exe"}
Paths(SYSTEM, ARCH) ==
  { output_name(n, TARGET_TRIPLE(SYSTEM, ARCH)) \o <<e>> :
      n \in TargetNames, e \in Extensions }

Absent == "absent"
\* what a path can hold when the script starts: nothing, some earlier
\* output, or the placeholder of an earlier run
StartContents == {Absent, "existing", "dummy"}

\* the skipped target's step that writes the placeholder whatever is there
skip_target_overwriting(fs, path) == [fs EXCEPT ![path] = "dummy"]

\* lines 157-166: the placeholder for a target that is not built here
skip_target(fs, path) ==
  IF fs[path] = Absent THEN [fs EXCEPT ![path] = "dummy"] ELSE fs

\* the contents of BINARIES_DIR a run can start from
StartFiles(sys, arch) ==
  { f \in [Paths(sys, arch) -> StartContents] :
      \A q \in Paths(sys, arch) :
        (\A n \in TargetNames : q # output_path(n, sys, arch))
          => f[q] = Absent }

BuildStarts ==
  UNION { { [pc |-> "main", SYSTEM |-> sys, ARCH |-> arch, fs |-> fs,
             scripts |-> scripts, reqs |-> reqs, i |-> 1, invoked |-> {},
             chmod |-> {}, log |-> <<>>, status |-> Running] :
              fs \in StartFiles(sys, arch),
              scripts \in SUBSET { TARGETS[k].script : k \in 1..Len(TARGETS) },
              reqs \in SUBSET { TARGETS[k].requirements :
                                  k \in 1..Len(TARGETS) } } :
          sys \in Systems, arch \in Archs }

BuildBoot ==
  /\ LoopStart({<<>>})
  /\ pcm = PcmIdle
  /\ build \in BuildStarts

BuildStep(b) ==
  /\ build' = b
  /\ UNCHANGED <<pc, stdin, pos, stdout, stderr, sys_stdout, tts, cmd, exc,
                 exit_code, nload, nsynth, wavlen, pcm>>

Logged(b, msg) == [b EXCEPT !.log = Append(@, msg)]
\* sys.exit(1)
Exited(b) == [b EXCEPT !.pc = "exited", !.status = 1]
\* an exception that leaves main
Raised(b) == [b EXCEPT !.pc = "raised", !.status = 1]

target == TARGETS[build.i]
Supported(t) == build.SYSTEM \in t.platforms

\* lines 138-141
MakeBinariesDir ==
  /\ build.pc = "main"
  /\ BuildStep([Logged(build, "Building TTS sidecars") EXCEPT !.pc = "loop"])

\* line 141 when BINARIES_DIR cannot be made
MakeBinariesDirFails ==
  /\ build.pc = "main"
  /\ BuildStep(Raised(Logged(build, "Building TTS sidecars")))

\* lines 153-167
SkipTarget ==
  /\ build.pc = "loop"
  /\ build.i <= Len(TARGETS)
  /\ ~Supported(target)
  /\ LET path == output_path(target.name, build.SYSTEM, build.ARCH)
         b1 == Logged(build, "Skipping build")
         b2 == IF build.fs[path] = Absent
               THEN Logged(b1, "Creating dummy binary") ELSE b1
     IN BuildStep([b2 EXCEPT !.fs = skip_target(build.fs, path),
                             !.i = @ + 1])

\* lines 170-178
InstallRequirements ==
  /\ build.pc = "loop"
  /\ build.i <= Len(TARGETS)
  /\ Supported(target)
  /\ IF target.requirements \in build.reqs
     THEN \E pip_ok \in BOOLEAN :
            LET b1 == Logged(build, "Installing dependencies")
            IN BuildStep(IF pip_ok THEN [b1 EXCEPT !.pc = "build"]
                         ELSE Raised(b1))
     ELSE BuildStep([Logged(build, "Warning: not found, skipping install")
                       EXCEPT !.pc = "build"])

\* lines 77-135, for the outcome of the PyInstaller run
build_target(b, t, returncode, writes) ==
  LET b1 == Logged(b, "Building sidecar")
      name == output_name(t.name, TARGET_TRIPLE(b.SYSTEM, b.ARCH))
      b2 == [Logged(b1, "Running") EXCEPT
               !.invoked = @ \cup {t.name},
               !.fs = IF writes
                      THEN [@ EXCEPT ![pyinstaller_output(name, b.SYSTEM)]
                                       = "built"]
                      ELSE @]
      path == name \o <<EXT(b.SYSTEM)>>
  IN IF t.script \notin b.scripts
     THEN Exited(Logged(b1, "Error: script not found"))
     ELSE IF returncode # 0
     THEN Exited(Logged(b2, "PyInstaller build failed"))
     ELSE IF b2.fs[path] # Absent
     THEN [Logged(b2, "Successfully built") EXCEPT
             !.chmod = @ \cup {path}, !.pc = "loop", !.i = @ + 1]
     ELSE Exited(Logged(b2, "Error: Expected output not found"))

\* line 180
BuildTarget ==
  /\ build.pc = "build"
  /\ \E returncode \in {0, 1}, writes \in BOOLEAN :
       BuildStep(build_target(build, target, returncode, writes))

\* the for loop of line 151 is exhausted and main returns
MainReturns ==
  /\ build.pc = "loop"
  /\ build.i > Len(TARGETS)
  /\ BuildStep([build EXCEPT !.pc = "returned", !.status = 0])

BuildNext ==
  \/ MakeBinariesDir
  \/ MakeBinariesDirFails
  \/ SkipTarget
  \/ InstallRequirements
  \/ BuildTarget
  \/ MainReturns

BuildSpec == BuildBoot /\ [][BuildNext]_vars

\* ---- properties of the command loop -----------------------------------
ReadyEmitted == Len(stdout) >= 1 /\ stdout[1] = Ok("ready")

\* the line the loop is about to read
line == stdin[pos + 1]

\* a step of the loop that handles a line taking one of the given arms
Handles(branches) ==
  /\ pc = "loop"
  /\ pos < Len(stdin)
  /\ pos' = pos + 1
  /\ Branch(line) \in branches

IsOk(x, action) ==
  /\ IsResponse(x)
  /\ x.status = "ok"
  /\ x.action = action

IsError(x, action) ==
  /\ IsResponse(x)
  /\ x.status = "error"
  /\ x.action = action
  /\ "error" \in DOMAIN x

\* the step wrote exactly one line to standard output, and it satisfies P
EmitsOne(P(_)) ==
  /\ Len(stdout') = Len(stdout) + 1
  /\ SubSeq(stdout', 1, Len(stdout)) = stdout
  /\ P(stdout'[Len(stdout')])

\* C1: after the ready message every line read from standard input has
\* been answered by exactly one response line on standard output, the k-th
\* response answering the k-th line, whatever the line's content.
C1_OneResponsePerLine ==
  ReadyEmitted =>
    /\ Len(stdout) = 1 + pos
    /\ \A k \in 1..pos : IsResponse(stdout[k + 1])

\* C2: the loop stops only on a shutdown request or at end of input; no
\* other line, whatever its content, ends the loop or the process.
C2_ExitOnlyOnShutdownOrEOF ==
  [][(pc = "loop" /\ pc' # "loop") =>
       \/ pos = Len(stdin)
       \/ Branch(line) = "shutdown"]_vars

\* what the loop would do with a next line nl from the given machine and
\* binding of cmd: the responses written, the engine afterwards, and
\* whether the loop goes on
Handling(m, c, nl, ienv, senv) ==
  LET r == main_body(m, c, nl, ienv, senv)
  IN [written |-> SubSeq(r.m.stdout, Len(m.stdout) + 1, Len(r.m.stdout)),
      tts |-> r.m.tts, next |-> r.next]

\* C3: a line that is not valid JSON, or whose action is unrecognized or
\* missing, gets exactly one error response, leaves the engine unchanged,
\* keeps the loop running, and the next line is handled exactly as it
\* would have been handled had the bad line not occurred.
C3_BadLineIsAbsorbed ==
  [][Handles({"decode_error", "unknown"}) =>
       /\ EmitsOne(LAMBDA x : IsResponse(x) /\ x.status = "error")
       /\ tts' = tts
       /\ pc' = "loop"
       /\ \A nl \in Lines, ienv \in InitEnvs, senv \in SynthEnvs :
            Handling(machine', cmd', nl, ienv, senv)
              = Handling(machine, cmd, nl, ienv, senv)]_vars

\* the action a response to the given line has to carry
RequestAction(l) ==
  LET p == json_loads(l)
  IN IF p.raised \/ p.value.type # "dict" THEN "unknown"
     ELSE dict_get(p.value, "action", None)

\* C4: every response carries the action of the line it answers, and
\* "unknown" when that line cannot be parsed, whatever was handled before.
C4_ResponseEchoesAction ==
  ReadyEmitted =>
    \A k \in 1..pos :
      k + 1 <= Len(stdout) => stdout[k + 1].action = RequestAction(stdin[k])

\* C5: a ping reports model_loaded true exactly when an init was answered
\* with status ok earlier in the session, and every ok init response
\* carries model_loaded true.
C5_PingReportsLoaded ==
  \A i \in 1..Len(stdout) :
    /\ IsOk(stdout[i], "ping") =>
         stdout[i].model_loaded
           = (\E j \in 1..(i - 1) : IsOk(stdout[j], "init"))
    /\ IsOk(stdout[i], "init") => stdout[i].model_loaded

\* an ok init, then a failed init, then a ping that still reports true
C5_Witness ==
  \E i, j, k \in 1..Len(stdout) :
    /\ i < j /\ j < k
    /\ IsOk(stdout[i], "init")
    /\ IsError(stdout[j], "init")
    /\ IsOk(stdout[k], "ping") /\ stdout[k].model_loaded

\* C6: a shutdown line is answered by exactly one {ok, shutdown} response,
\* after which the process has exited with code 0 and nothing more is
\* written, pending input or not; a line with any other action leaves the
\* loop running.
C6_ShutdownTerminates ==
  /\ [](\A i \in 1..Len(stdout) :
          stdout[i] = Ok("shutdown") =>
            i = Len(stdout) /\ pc = "exit" /\ exit_code = 0)
  /\ [][Handles({"shutdown"}) =>
          /\ EmitsOne(LAMBDA x : x = Ok("shutdown"))
          /\ pc' = "exit"
          /\ exit_code' = 0]_vars
  /\ [][Handles({"init", "warmup", "generate", "ping", "unknown"}) =>
          pc' = "loop" /\ exit_code' = Running]_vars

\* shut down with lines still pending on standard input
C6_Witness ==
  /\ pc = "exit"
  /\ exit_code = 0
  /\ pos < Len(stdin)
  /\ stdout[Len(stdout)] = Ok("shutdown")

\* C7: when init, warmup or generate raises, the iteration writes exactly
\* one error response carrying the request's action and a message, the
\* library is called at most once, and the loop goes on to the next line.
C7_HandlerErrorIsReported ==
  [][(Handles({"init", "warmup", "generate"}) /\ exc' # NoExc) =>
       /\ EmitsOne(LAMBDA x : IsError(x, Branch(line)))
       /\ pc' = "loop"
       /\ exit_code' = Running
       /\ nload' <= nload + 1
       /\ nsynth' <= nsynth + 1]_vars

\* a handler raised, was answered with its own action, and the next line
\* (a ping) was answered after it
C7_Witness ==
  \E k \in 1..(pos - 1) :
    /\ k + 2 <= Len(stdout)
    /\ Branch(stdin[k]) \in {"init", "warmup", "generate"}
    /\ IsError(stdout[k + 1], Branch(stdin[k]))
    /\ IsOk(stdout[k + 2], "ping")

\* C8: a warmup is answered ok only after an init was answered ok; with no
\* model loaded it is answered with an error tagged "warmup" and runs no
\* synthesis; a failing throwaway synthesis is answered the same way.
C8_WarmupNeedsInit ==
  /\ [](\A i \in 1..Len(stdout) :
          IsOk(stdout[i], "warmup") =>
            \E j \in 1..(i - 1) : IsOk(stdout[j], "init"))
  /\ [][(Handles({"warmup"}) /\ tts.model = NoModel) =>
          /\ EmitsOne(LAMBDA x : IsError(x, "warmup"))
          /\ nsynth' = nsynth]_vars
  /\ [][(Handles({"warmup"}) /\ nsynth' # nsynth /\ exc' # NoExc) =>
          EmitsOne(LAMBDA x : IsError(x, "warmup"))]_vars

\* a warmup refused for want of a model, an ok init, then a warmup whose
\* synthesis failed
C8_Witness ==
  /\ Len(stdout) = 4
  /\ IsError(stdout[2], "warmup")
  /\ IsOk(stdout[3], "init")
  /\ IsError(stdout[4], "warmup")
  /\ nsynth = 1

\* C9: handling generate, warmup or ping leaves the engine (model handle,
\* device, speaker, sample rate) as it was, whether the handler succeeds
\* or fails; only an init line changes it.
C9_OnlyInitChangesEngine ==
  [][/\ Handles({"generate", "warmup", "ping"}) => tts' = tts
     /\ (pc = "loop" /\ tts' # tts) => Handles({"init"})]_vars

\* a generate answered from a loaded model whose waveform came at a rate
\* other than the engine's
C9_Witness ==
  /\ tts.model # NoModel
  /\ IsOk(stdout[Len(stdout)], "generate")
  /\ stdout[Len(stdout)].sample_rate # tts.sample_rate

\* C10: sys.stdout names the real standard output whenever a handler is
\* not running, every line on standard output is a protocol response, and
\* no protocol response has gone to standard error.
C10_StdoutIsPureResponses ==
  /\ sys_stdout = "stdout"
  /\ \A i \in 1..Len(stdout) : IsResponse(stdout[i])
  /\ \A i \in 1..Len(stderr) : ~IsResponse(stderr[i])

\* from_pretrained raised while sys.stdout was redirected, and the error
\* response reached standard output
C10_Witness ==
  /\ Len(stdout) >= 2
  /\ IsError(stdout[Len(stdout)], "init")
  /\ exc = "RuntimeError"
  /\ nload >= 1
  /\ tts.model = NoModel

\* C14: on a normal startup the first line on standard output is the ready
\* response; it is written before any line is read (nothing at all is
\* written before it) and no later command produces another one.
C14_ReadyOnceAndFirst ==
  /\ pc \in {"import", "main"} => stdout = <<>> /\ pos = 0
  /\ (pc = "loop" \/ pos > 0 \/ exit_code = 0) => ReadyEmitted
  /\ \A i \in 1..Len(stdout) : IsOk(stdout[i], "ready") => i = 1

\* ready, then two inits both answered ok
C14_Witness ==
  /\ Len(stdout) >= 3
  /\ ReadyEmitted
  /\ IsOk(stdout[2], "init")
  /\ IsOk(stdout[3], "init")

\* C15: when the import of a required library fails, the process writes
\* exactly one error response tagged "startup", exits with a non-zero code,
\* never writes ready and never reads a command.
C15_StartupFailure ==
  /\ (pc = "exit" /\ ~ReadyEmitted) =>
        /\ Len(stdout) = 1
        /\ IsError(stdout[1], "startup")
        /\ exit_code \notin {Running, 0}
        /\ pos = 0
  /\ \A i \in 1..Len(stdout) :
        stdout[i].action = "startup" => pc = "exit" /\ Len(stdout) = 1

\* the import failed with commands waiting on standard input
C15_Witness ==
  /\ pc = "exit"
  /\ Len(stdout) = 1
  /\ IsError(stdout[1], "startup")
  /\ Len(stdin) > 0

\* C16: a generate request without a text field is not answered with a
\* successful audio response.
C16_GenerateRequiresText ==
  ReadyEmitted =>
    \A k \in 1..pos :
      (/\ k + 1 <= Len(stdout)
       /\ Branch(stdin[k]) = "generate"
       /\ "text" \notin DOMAIN stdin[k].members)
        => ~IsOk(stdout[k + 1], "generate")

\* C17: an init that fails leaves the model handle as it was (none on a
\* fresh engine, the old handle after an earlier successful init), so a
\* ping or a generate that follows is answered as it would have been
\* before the failed init.
C17_FailedInitKeepsModel ==
  [][(Handles({"init"}) /\ exc' # NoExc) =>
       /\ tts'.model = tts.model
       /\ \A nl \in Lines, ienv \in NoInitEnv, senv \in SynthEnvs :
            Branch(nl) \in {"ping", "generate"} =>
              Handling(machine', cmd', nl, ienv, senv).written
                = Handling(machine, cmd, nl, ienv, senv).written]_vars

\* a second init failed inside from_pretrained and the first handle is kept
C17_Witness ==
  /\ Len(stdout) >= 3
  /\ IsError(stdout[Len(stdout)], "init")
  /\ \E i \in 1..(Len(stdout) - 1) : IsOk(stdout[i], "init")
  /\ nload = 2
  /\ tts.model = 1

\* C19: whenever the loop is about to handle a request, a loaded model
\* comes with a speaker, whatever inits succeeded or failed before.
C19_ModelImpliesSpeaker ==
  pc = "loop" => (tts.model # NoModel => tts.speaker # NoSpeaker)

\* a model is loaded and a later init has failed
C19_Witness ==
  /\ pc = "loop"
  /\ tts.model # NoModel
  /\ tts.speaker = "Ryan"
  /\ IsError(stdout[Len(stdout)], "init")

\* ---- properties of generate --------------------------------------------
TextLen(l) == dict_get(json_loads(l).value, "text", 0)
Speed(l) == dict_get(json_loads(l).value, "speed", 10)
Temperature(l) == dict_get(json_loads(l).value, "temperature", 1)

\* the k-th line is a generate request that was answered while no init had
\* been answered ok
OnPlaceholderPath(k) ==
  /\ k + 1 <= Len(stdout)
  /\ Branch(stdin[k]) = "generate"
  /\ \A j \in 1..k : ~IsOk(stdout[j], "init")

\* C11: a generate request handled while no model is loaded is answered ok
\* with an audio payload at sample_rate 24000; two such requests with texts
\* of the same length get the same payload whatever their speed and
\* temperature and whatever came before, and a longer text gets more
\* samples.
C11_PlaceholderScalesWithText ==
  ReadyEmitted =>
    \A k \in 1..pos : OnPlaceholderPath(k) =>
      /\ IsOk(stdout[k + 1], "generate")
      /\ stdout[k + 1].sample_rate = 24000
      /\ \A l \in 1..pos : OnPlaceholderPath(l) =>
           /\ TextLen(stdin[k]) = TextLen(stdin[l]) =>
                stdout[k + 1].audio = stdout[l + 1].audio
           /\ TextLen(stdin[k]) < TextLen(stdin[l]) =>
                stdout[k + 1].audio.nframes < stdout[l + 1].audio.nframes

\* two placeholder answers to texts of one length at different speeds and
\* temperatures, and a third to a longer text would differ: here the
\* second text is as long as the first
C11_Witness ==
  /\ pos = 2
  /\ OnPlaceholderPath(1)
  /\ OnPlaceholderPath(2)
  /\ TextLen(stdin[1]) = TextLen(stdin[2])
  /\ TextLen(stdin[1]) > 0
  /\ Speed(stdin[1]) # Speed(stdin[2])
  /\ Temperature(stdin[1]) # Temperature(stdin[2])

\* the number of frames the request would get at speed 1.0: what the
\* library returned when a model is loaded, otherwise the answer to the
\* same request with speed 1.0
AtUnitSpeed(l) == ObjLine([action |-> "generate", text |-> TextLen(l)])

UnitSpeedFrames ==
  IF tts.model # NoModel THEN wavlen'
  ELSE Handling(machine, cmd, AtUnitSpeed(line),
                [cuda |-> FALSE, fails |-> "none"],
                [raises |-> TRUE]).written[1].audio.nframes

SpeedRule(x) ==
  /\ IsOk(x, "generate")
  /\ Speed(line) = 10 => x.audio.nframes = UnitSpeedFrames
  /\ Speed(line) = 20 => x.audio.nframes = UnitSpeedFrames \div 2

\* C13 as stated: every generate request answered with audio has, at speed
\* 1.0, the sample count of the synthesized waveform and, at speed 2.0,
\* the integer part of half of it.
C13_SpeedScalesEveryAnswer ==
  [][(Handles({"generate"}) /\ exc' = NoExc) => EmitsOne(SpeedRule)]_vars

\* C13 amended: the same for requests answered from a loaded model.
C13_SpeedScalesModelAnswer ==
  [][(Handles({"generate"}) /\ exc' = NoExc /\ tts.model # NoModel) =>
       EmitsOne(SpeedRule)]_vars

\* a waveform of 3 samples answered at speed 2.0 with 1 frame
C13_Witness ==
  /\ pos >= 1
  /\ tts.model # NoModel
  /\ Branch(stdin[pos]) = "generate"
  /\ Speed(stdin[pos]) = 20
  /\ IsOk(stdout[Len(stdout)], "generate")
  /\ wavlen = 3
  /\ stdout[Len(stdout)].audio.nframes = 1

\* ---- reading the audio field back --------------------------------------
B64Value(c) == CHOOSE v \in 0..63 : B64Alphabet[v + 1] = c

\* base64 decoding of a sequence of characters
b64decode(chars) ==
  LET groups == Len(chars) \div 4
      pads == Cardinality({i \in 1..Len(chars) : chars[i] = "="})
      val(i) == IF chars[i] = "=" THEN 0 ELSE B64Value(chars[i])
      byte(g, j) ==
        LET v0 == val(4 * g + 1)
            v1 == val(4 * g + 2)
            v2 == val(4 * g + 3)
            v3 == val(4 * g + 4)
        IN CASE j = 0 -> v0 * 4 + v1 \div 16
             [] j = 1 -> (v1 % 16) * 16 + v2 \div 4
             [] OTHER -> (v2 % 4) * 64 + v3
  IN [i \in 1..(3 * groups - pads) |-> byte((i - 1) \div 3, (i - 1) % 3)]

\* the number k little-endian bytes starting at position i stand for
Unsigned(bytes, i, k) ==
  LET RECURSIVE go(_)
      go(j) == IF j = k THEN 0
               ELSE bytes[i + j] * Pow256(j) + go(j + 1)
  IN go(0)

\* what a reader of RIFF/WAVE PCM files finds in the bytes
wave_open(bytes) ==
  LET tag(i) == SubSeq(bytes, i, i + 3)
      wellformed ==
        /\ Len(bytes) >= 44
        /\ tag(1) = TagRIFF
        /\ Unsigned(bytes, 5, 4) = Len(bytes) - 8
        /\ tag(9) = TagWAVE
        /\ tag(13) = TagFmt
        /\ Unsigned(bytes, 17, 4) = 16
        /\ Unsigned(bytes, 21, 2) = 1
        /\ tag(37) = TagData
        /\ Unsigned(bytes, 41, 4) = Len(bytes) - 44
      nchannels == Unsigned(bytes, 23, 2)
      sampwidth == (Unsigned(bytes, 35, 2) + 7) \div 8
  IN IF ~wellformed THEN [ok |-> FALSE]
     ELSE [ok |-> TRUE, nchannels |-> nchannels, sampwidth |-> sampwidth,
           framerate |-> Unsigned(bytes, 25, 4),
           nframes |-> Unsigned(bytes, 41, 4) \div (nchannels * sampwidth)]

\* C12: decoding the base64 audio field of a successful generate answer,
\* on the placeholder path and on the model path, gives a PCM container
\* with 1 channel, 2 bytes per sample and the frame rate that the answer's
\* sample_rate field states.
C12_AudioRoundTrip ==
  pcm.stage = "answered" =>
    LET w == wave_open(b64decode(pcm.audio))
    IN /\ w.ok
       /\ w.nchannels = 1
       /\ w.sampwidth = 2
       /\ w.framerate = pcm.sample_rate

\* an answer from a loaded model at 12000 Hz with frames in it
C12_Witness ==
  /\ pcm.stage = "answered"
  /\ pcm.req.loaded
  /\ pcm.sample_rate = 12000
  /\ wave_open(b64decode(pcm.audio)).nframes = 3

\* ---- properties of the build script -----------------------------------
BuildPaths == DOMAIN build.fs

OutputExists(t) ==
  build.fs[output_path(t.name, build.SYSTEM, build.ARCH)] # Absent

AllTargets == { TARGETS[k] : k \in 1..Len(TARGETS) }

\* C18: when main of the build script has returned normally, every target
\* of TARGETS has a file at its output path and PyInstaller was run for
\* exactly the targets whose platforms contain SYSTEM; and no step puts the
\* placeholder on a path that already held something.
C18_BuildOutputs ==
  /\ [](build.pc = "returned" =>
          /\ \A t \in AllTargets : OutputExists(t)
          /\ build.invoked =
               { t.name : t \in { u \in AllTargets :
                                    build.SYSTEM \in u.platforms } })
  /\ [][build.pc \notin {"idle", "main"} =>
          \A q \in BuildPaths :
            (build.fs[q] # Absent /\ build'.fs[q] = "dummy")
              => build.fs[q] = "dummy"]_vars

\* a Linux run that returned: one skipped target kept its earlier output,
\* the other got the placeholder, the third was built
C18_Witness ==
  /\ build.pc = "returned"
  /\ build.SYSTEM = "Linux"
  /\ build.fs[output_path("chatterbox-tts", "Linux", build.ARCH)] = "existing"
  /\ build.fs[output_path("qwen3-tts", "Linux", build.ARCH)] = "dummy"
  /\ build.fs[output_path("qwen3-tts-cuda", "Linux", build.ARCH)] = "built"
  /\ build.invoked = {"qwen3-tts-cuda"}

====
